---------------------------- MODULE Spec2Model ----------------------------
(***************************************************************************)
(* Revised simplex of askiada/goptimization (src/simplex.go, lines 1-321:  *)
(* the CanonicalForm with the dense remap array).                          *)
(*                                                                         *)
(* float64 values are modelled as exact rationals <<num, den>> in lowest   *)
(* terms with den > 0 (+Inf is <<1, 0>>); matrices and vectors are         *)
(* functions over 0-based index ranges, as mat.Dense is indexed.  B, AN,   *)
(* cB and cN are views of A and c, so they are operators over A and c.     *)
(***************************************************************************)
EXTENDS Integers, Sequences, FiniteSets, TLC

(* ------------------------------ bounds -------------------------------- *)
MaxCoef == 1
MaxCost == 2
MaxRhs == 1
MaxIter == 3
TestMaxIter == 10

(* ----------------------- float64 as exact rationals ------------------- *)
\* The arithmetic is written as functions, which take their arguments by value.
Abs(v) == IF v < 0 THEN -v ELSE v

RECURSIVE GCD(_, _)
GCD(p, q) == IF q = 0 THEN p ELSE GCD(q, p % q)

Q == Int \X Int
Rat[p \in Int, q \in Int] ==
    LET g == GCD(Abs(p), Abs(q))
        s == IF q < 0 THEN -1 ELSE 1
    IN  <<(s * p) \div g, (s * q) \div g>>

F(v) == <<v, 1>>
Inf == <<1, 0>>
RAdd[u \in Q, v \in Q] == Rat[u[1] * v[2] + v[1] * u[2], u[2] * v[2]]
RSub[u \in Q, v \in Q] == Rat[u[1] * v[2] - v[1] * u[2], u[2] * v[2]]
RMul[u \in Q, v \in Q] == Rat[u[1] * v[1], u[2] * v[2]]
RDiv[u \in Q, v \in Q] == Rat[u[1] * v[2], u[2] * v[1]]
RLt[u \in Q, v \in Q] == u[1] * v[2] < v[1] * u[2]
RLe[u \in Q, v \in Q] == u[1] * v[2] <= v[1] * u[2]
RPos[u \in Q] == u[1] > 0

\* sum of f[0] .. f[k-1], f a function to rationals
RECURSIVE RSum(_, _)
RSum(f, k) == IF k = 0 THEN F(0) ELSE RAdd[RSum(f, k - 1), f[k - 1]]

(* --------------------------- dense matrices --------------------------- *)
Minor(M, k, r, q) ==
    [i \in 0..(k - 2) |-> [j \in 0..(k - 2) |->
        M[IF i < r THEN i ELSE i + 1][IF j < q THEN j ELSE j + 1]]]

RECURSIVE Det(_, _)
RECURSIVE DetRow(_, _, _)
\* cofactor expansion along row 0, columns 0 .. j-1
DetRow(M, k, j) ==
    IF j = 0 THEN 0
    ELSE DetRow(M, k, j - 1)
         + (IF (j - 1) % 2 = 0 THEN 1 ELSE -1) * M[0][j - 1]
           * Det(Minor(M, k, 0, j - 1), k - 1)
Det(M, k) == IF k = 0 THEN 1 ELSE IF k = 1 THEN M[0][0] ELSE DetRow(M, k, k)

\* the inverse of an integer k x k matrix with non-zero determinant
Inverse(M, k) ==
    LET dt == Det(M, k)
    IN  [i \in 0..(k - 1) |-> [j \in 0..(k - 1) |->
            Rat[(IF (i + j) % 2 = 0 THEN 1 ELSE -1) * Det(Minor(M, k, j, i), k - 1), dt]]]

(* ------------------------------- state --------------------------------- *)
VARIABLES
    inp,        \* the arguments c, A, b of the call
    pc,         \* position of the caller
    n, m, A, c, b, xBStar, remap,   \* CanonicalForm fields
    varAt,      \* history: the augmented variable whose column stands at each column of A
    ret,        \* what the last call of New / Iter returned (rerun: it repeats a
                \* call that returned end = true, with the same forced index)
    results, score,             \* what the last call of GetResults returned
    maxIter, i, totalIter,      \* locals of Simplex
    hist        \* history of StepZero: the bases it has left, and whether a step
                \* size was not > 0

vars == <<inp, pc, n, m, A, c, b, xBStar, remap, varAt, ret, results, score,
          maxIter, i, totalIter, hist>>

cfVars == <<n, m, A, c, b, xBStar, remap, varAt>>

(* ------------------------------- inputs -------------------------------- *)
Vec(k, S) == [0..(k - 1) -> S]
Mat(r, q, S) == [0..(r - 1) -> [0..(q - 1) -> S]]

\* <<rows of c, columns of c, rows of A, columns of A>>
Shapes == {<<1, 2, 2, 2>>, <<1, 1, 1, 1>>, <<1, 2, 2, 1>>, <<1, 1, 1, 2>>, <<2, 1, 1, 1>>}

Problem(cRows, cc, aa, bb, aRows, aCols) ==
    [cRows |-> cRows, cCols |-> Cardinality(DOMAIN cc), c |-> cc,
     aRows |-> aRows, aCols |-> aCols, A |-> aa, b |-> bb]

Row(s) == [j \in 0..(Len(s) - 1) |-> s[j + 1]]
Rows(s) == [k \in 0..(Len(s) - 1) |-> Row(s[k + 1])]

\* TestSimplex / TestIter / TestNew
ScenarioA ==
    Problem(1, Row(<<7, 9, 18, 17>>),
            Rows(<<(<<2, 4, 5, 7>>), (<<1, 1, 2, 2>>), (<<1, 2, 3, 3>>)>>),
            Row(<<42, 17, 24>>), 3, 4)
\* TestSimplex2
ScenarioB ==
    Problem(1, Row(<<100, 85>>),
            Rows(<<(<<12, 24>>), (<<9, 5>>), (<<30, 30>>)>>),
            Row(<<480, 180, 720>>), 3, 2)
\* TestSimplex3
ScenarioC ==
    Problem(1, Row(<<4, 3, 5>>),
            Rows(<<(<<4, 12, 8>>), (<<4, 4, 8>>), (<<12, 4, 8>>)>>),
            Row(<<4800, 4000, 5600>>), 3, 3)

Scenarios == {ScenarioA, ScenarioB, ScenarioC}

Nil == <<>>
NoRet ==
    [op |-> "none", err |-> "nil", end |-> FALSE, force |-> 0,
     enteringVarIndex |-> -1, leavingVarIndex |-> -1, x |-> F(0),
     rerun |-> FALSE]

Init ==
    /\ \/ \E s \in Shapes :
            \E cc \in Vec(s[2], 1..MaxCost), aa \in Mat(s[3], s[4], (-1)..MaxCoef),
               bb \in Vec(s[3], 0..MaxRhs) :
                inp = Problem(s[1], cc, aa, bb, s[3], s[4])
       \/ inp \in Scenarios
    /\ pc = "start"
    /\ n = 0 /\ m = 0
    /\ A = Nil /\ c = Nil /\ b = Nil /\ xBStar = Nil /\ remap = Nil /\ varAt = Nil
    /\ ret = NoRet
    /\ results = Nil /\ score = F(0)
    /\ maxIter = 0 /\ i = 0 /\ totalIter = 0
    /\ hist = [left |-> {}, degenerate |-> FALSE]

(* ------------------------- views of A and c ---------------------------- *)
B == [r \in 0..(m - 1) |-> [j \in 0..(m - 1) |-> A[r][n + j]]]
AN == [r \in 0..(m - 1) |-> [j \in 0..(n - 1) |-> A[r][j]]]
cB == [j \in 0..(m - 1) |-> c[n + j]]
cN == [j \in 0..(n - 1) |-> c[j]]

(* -------------------------------- New ---------------------------------- *)
\* A.Grow(0, m): the m x (aCols + m) matrix holding A and zeros
Grow(aa, aRows, aCols, extra) ==
    [r \in 0..(aRows - 1) |-> [j \in 0..(aCols + extra - 1) |->
        IF j < aCols THEN aa[r][j] ELSE 0]]

\* the loop "cf.A.Set(i, cf.n+i, 1.0)" for rows 0 .. k-1
SetSlack(M, nn, k) ==
    [r \in DOMAIN M |-> [j \in DOMAIN M[r] |->
        IF r < k /\ j = nn + r THEN 1 ELSE M[r][j]]]

NewBody ==
    IF inp.cRows > 1 THEN
        /\ ret' = [NoRet EXCEPT !.op = "New", !.err = "z dims.r > 1"]
        /\ UNCHANGED cfVars
    ELSE IF inp.aCols > inp.cCols THEN
        /\ n' = inp.cCols
        /\ ret' = [NoRet EXCEPT !.op = "New", !.err = "A dims.c > z dims.r"]
        /\ UNCHANGED <<m, A, c, b, xBStar, remap, varAt>>
    ELSE IF inp.aCols < inp.cCols THEN
        \* Set(i, n+i) runs out of the grown matrix's aCols+m columns at
        \* row i = m - (n - aCols): mat.Dense.Set panics
        /\ n' = inp.cCols
        /\ m' = inp.aRows
        /\ A' = SetSlack(Grow(inp.A, inp.aRows, inp.aCols, inp.aRows), inp.cCols,
                         inp.aRows - (inp.cCols - inp.aCols))
        /\ ret' = [NoRet EXCEPT !.op = "New", !.err = "panic"]
        /\ UNCHANGED <<c, b, xBStar, remap, varAt>>
    ELSE
        /\ n' = inp.cCols
        /\ m' = inp.aRows
        /\ A' = SetSlack(Grow(inp.A, inp.aRows, inp.aCols, inp.aRows), inp.cCols, inp.aRows)
        /\ b' = inp.b
        /\ c' = [j \in 0..(inp.cCols + inp.aRows - 1) |->
                    IF j < inp.cCols THEN inp.c[j] ELSE 0]
        /\ xBStar' = [r \in 0..(inp.aRows - 1) |-> F(inp.b[r])]
        /\ remap' = [j \in 0..(inp.cCols + inp.aRows - 1) |-> j]
        /\ varAt' = [j \in 0..(inp.cCols + inp.aRows - 1) |-> j]
        /\ ret' = [NoRet EXCEPT !.op = "New"]

\* where the caller stands after New returned
AfterNew(next) ==
    IF ret'.err = "nil" THEN next
    ELSE IF ret'.err = "panic" THEN "panicked" ELSE "failed"

\* cf.New(c, A, b) called directly (TestNew, TestIter)
New ==
    /\ pc = "start"
    /\ NewBody
    /\ pc' = AfterNew("ready")
    /\ UNCHANGED <<inp, results, score, maxIter, i, totalIter, hist>>

(* -------------------------------- Iter --------------------------------- *)
\* y = cB * B^-1; Inverse fails on a singular B
FindY ==
    IF Det(B, m) = 0 THEN [err |-> "singular", y |-> Nil]
    ELSE LET BInv == Inverse(B, m)
         IN  [err |-> "nil",
              y |-> [j \in 0..(m - 1) |->
                        RSum([r \in 0..(m - 1) |-> RMul[F(cB[r]), BInv[r][j]]], m)]]

\* the row cN - y*AN
ReducedCosts(y) ==
    [j \in 0..(n - 1) |->
        RSub[F(cN[j]), RSum([r \in 0..(m - 1) |-> RMul[y[r], F(AN[r][j])]], m)]]

\* (mutant: the first column with a reduced cost > 0 enters, not the largest)
RECURSIVE EnteringScanFirst(_, _, _, _)
EnteringScanFirst(r, j, max, idx) ==
    IF j >= n THEN idx
    ELSE IF RPos[r[j]] THEN j
    ELSE EnteringScanFirst(r, j + 1, max, idx)

\* the scan "for j := 0; j < c; j++" from column j on, with the running max and index
RECURSIVE EnteringScan(_, _, _, _)
EnteringScan(r, j, max, idx) ==
    IF j >= n THEN idx
    ELSE IF RPos[r[j]] /\ RLt[max, r[j]] THEN EnteringScan(r, j + 1, r[j], j)
    ELSE EnteringScan(r, j + 1, max, idx)

\* (mutant: a forced column enters whatever its reduced cost)
FindEnteringVariableUnchecked(y, forceEnteringVarIndex) ==
    LET r == ReducedCosts(y)
    IN  IF forceEnteringVarIndex # 0 THEN
            IF forceEnteringVarIndex \notin 0..(n - 1) THEN -2
            ELSE forceEnteringVarIndex
        ELSE EnteringScan(r, 0, F(0), -1)

\* (mutant: the scan starts at column 1)
FindEnteringVariableFromOne(y, forceEnteringVarIndex) ==
    LET r == ReducedCosts(y)
    IN  IF forceEnteringVarIndex # 0 THEN
            IF forceEnteringVarIndex \notin 0..(n - 1) THEN -2
            ELSE IF RPos[r[forceEnteringVarIndex]] THEN forceEnteringVarIndex
            ELSE -1
        ELSE EnteringScan(r, 1, F(0), -1)

\* -2 stands for the panic of m.At(0, forceEnteringVarIndex) out of range
FindEnteringVariable(y, forceEnteringVarIndex) ==
    LET r == ReducedCosts(y)
    IN  IF forceEnteringVarIndex # 0 THEN
            IF forceEnteringVarIndex \notin 0..(n - 1) THEN -2
            ELSE IF RPos[r[forceEnteringVarIndex]] THEN forceEnteringVarIndex
            ELSE -1
        ELSE EnteringScan(r, 0, F(0), -1)

\* d with B*d = AN[:, enteringVarIndex]; Iter calls it after FindY has
\* inverted B, so B is not singular here
SolveBd(enteringVarIndex) ==
    LET BInv == Inverse(B, m)
    IN  [r \in 0..(m - 1) |->
            RSum([j \in 0..(m - 1) |-> RMul[BInv[r][j], F(AN[j][enteringVarIndex])]], m)]

\* the ratio test from row r on: <<x, leavingVarIndex, found>>
RECURSIVE LeavingScan(_, _, _, _, _)
LeavingScan(d, r, x, idx, found) ==
    IF r >= m THEN <<x, idx, found>>
    ELSE IF ~RPos[d[r]] THEN LeavingScan(d, r + 1, x, idx, found)
    ELSE LET tmp == RDiv[xBStar[r], d[r]]
         IN  IF RLt[tmp, x] THEN LeavingScan(d, r + 1, tmp, r, TRUE)
             ELSE LeavingScan(d, r + 1, x, idx, TRUE)

\* (mutant: row 0 is returned when no row has d > 0)
FindLeavingVariableNoSentinel(d) ==
    LET s == LeavingScan(d, 0, Inf, -1, FALSE)
    IN  IF ~s[3] THEN [x |-> F(-1), leavingVarIndex |-> 0]
        ELSE [x |-> s[1], leavingVarIndex |-> s[2]]

\* (mutant: the first row with d > 0 leaves, whatever its ratio)
FindLeavingVariableFirstRow(d) ==
    LET rows == {r \in 0..(m - 1) : RPos[d[r]]}
        first == CHOOSE r \in rows : \A q \in rows : r <= q
    IN  IF rows = {} THEN [x |-> F(-1), leavingVarIndex |-> -1]
        ELSE [x |-> RDiv[xBStar[first], d[first]], leavingVarIndex |-> first]

FindLeavingVariable(d) ==
    LET s == LeavingScan(d, 0, Inf, -1, FALSE)
    IN  IF ~s[3] THEN [x |-> F(-1), leavingVarIndex |-> -1]
        ELSE [x |-> s[1], leavingVarIndex |-> s[2]]

Swap(f, p, q) == [f EXCEPT ![p] = f[q], ![q] = f[p]]

\* (mutant: xBStar[leavingVarIndex] is not overwritten with the step size)
UpdateNoSet(d, y, x, enteringVarIndex, leavingVarIndex) ==
    [xBStar |-> [r \in 0..(m - 1) |-> RSub[xBStar[r], RMul[x, d[r]]]],
     A |-> [r \in 0..(m - 1) |-> Swap(A[r], n + leavingVarIndex, enteringVarIndex)],
     c |-> Swap(c, n + leavingVarIndex, enteringVarIndex)]

\* (mutant: the cost entries of cB and cN are not exchanged)
UpdateKeepCosts(d, y, x, enteringVarIndex, leavingVarIndex) ==
    [xBStar |-> [r \in 0..(m - 1) |->
                    IF r = leavingVarIndex THEN x
                    ELSE RSub[xBStar[r], RMul[x, d[r]]]],
     A |-> [r \in 0..(m - 1) |-> Swap(A[r], n + leavingVarIndex, enteringVarIndex)],
     c |-> c]

\* the new xBStar, A and c
Update(d, y, x, enteringVarIndex, leavingVarIndex) ==
    [xBStar |-> [r \in 0..(m - 1) |->
                    IF r = leavingVarIndex THEN x
                    ELSE RSub[xBStar[r], RMul[x, d[r]]]],
     A |-> [r \in 0..(m - 1) |-> Swap(A[r], n + leavingVarIndex, enteringVarIndex)],
     c |-> Swap(c, n + leavingVarIndex, enteringVarIndex)]

\* "Store the new pair of entering/leaving variables"
StorePair(enteringVarIndex, leavingVarIndex) ==
    [remap EXCEPT ![n + leavingVarIndex] = enteringVarIndex,
                  ![enteringVarIndex] = remap[n + leavingVarIndex]]

Returned(force, end, err, k, l, x) ==
    [op |-> "Iter", err |-> err, end |-> end, force |-> force,
     enteringVarIndex |-> k, leavingVarIndex |-> l, x |-> x,
     rerun |-> (ret.op = "Iter" /\ ret.end /\ ret.force = force)]

\* (mutant: the pair is stored before the leaving index is tested)
IterBodyEarlyStore(forceEnteringVarIndex) ==
    \E fy \in {FindY} :
    IF fy.err # "nil" THEN
        /\ ret' = Returned(forceEnteringVarIndex, FALSE, fy.err, -1, -1, F(0))
        /\ UNCHANGED cfVars
    ELSE
    \E enteringVarIndex \in {FindEnteringVariable(fy.y, forceEnteringVarIndex)} :
    IF enteringVarIndex = -2 THEN
        /\ ret' = Returned(forceEnteringVarIndex, FALSE, "panic", -1, -1, F(0))
        /\ UNCHANGED cfVars
    ELSE IF enteringVarIndex = -1 THEN
        /\ ret' = Returned(forceEnteringVarIndex, TRUE, "nil", -1, -1, F(0))
        /\ UNCHANGED cfVars
    ELSE
    \E d \in {SolveBd(enteringVarIndex)} :
    \E lv \in {FindLeavingVariable(d)} :
    IF lv.leavingVarIndex = -1 THEN
        /\ remap' = StorePair(enteringVarIndex, lv.leavingVarIndex)
        /\ ret' = Returned(forceEnteringVarIndex, TRUE, "nil", enteringVarIndex, -1, lv.x)
        /\ UNCHANGED <<n, m, A, c, b, xBStar, varAt>>
    ELSE
    \E u \in {Update(d, fy.y, lv.x, enteringVarIndex, lv.leavingVarIndex)} :
        /\ remap' = StorePair(enteringVarIndex, lv.leavingVarIndex)
        /\ varAt' = Swap(varAt, n + lv.leavingVarIndex, enteringVarIndex)
        /\ xBStar' = u.xBStar
        /\ A' = u.A
        /\ c' = u.c
        /\ ret' = Returned(forceEnteringVarIndex, FALSE, "nil", enteringVarIndex,
                           lv.leavingVarIndex, lv.x)
        /\ UNCHANGED <<n, m, b>>

\* (each local of Iter is bound with \E over a singleton, so it is computed once)
IterBody(forceEnteringVarIndex) ==
    \E fy \in {FindY} :
    IF fy.err # "nil" THEN
        /\ ret' = Returned(forceEnteringVarIndex, FALSE, fy.err, -1, -1, F(0))
        /\ UNCHANGED cfVars
    ELSE
    \E enteringVarIndex \in {FindEnteringVariable(fy.y, forceEnteringVarIndex)} :
    IF enteringVarIndex = -2 THEN
        /\ ret' = Returned(forceEnteringVarIndex, FALSE, "panic", -1, -1, F(0))
        /\ UNCHANGED cfVars
    ELSE IF enteringVarIndex = -1 THEN
        /\ ret' = Returned(forceEnteringVarIndex, TRUE, "nil", -1, -1, F(0))
        /\ UNCHANGED cfVars
    ELSE
    \E d \in {SolveBd(enteringVarIndex)} :
    \E lv \in {FindLeavingVariable(d)} :
    IF lv.leavingVarIndex = -1 THEN
        /\ ret' = Returned(forceEnteringVarIndex, TRUE, "nil", enteringVarIndex, -1, lv.x)
        /\ UNCHANGED cfVars
    ELSE
    \E u \in {Update(d, fy.y, lv.x, enteringVarIndex, lv.leavingVarIndex)} :
        /\ remap' = StorePair(enteringVarIndex, lv.leavingVarIndex)
        /\ varAt' = Swap(varAt, n + lv.leavingVarIndex, enteringVarIndex)
        /\ xBStar' = u.xBStar
        /\ A' = u.A
        /\ c' = u.c
        /\ ret' = Returned(forceEnteringVarIndex, FALSE, "nil", enteringVarIndex,
                           lv.leavingVarIndex, lv.x)
        /\ UNCHANGED <<n, m, b>>

\* cf.Iter(forceEnteringVarIndex) called directly (TestIter)
Iter(forceEnteringVarIndex) ==
    /\ pc = "ready"
    /\ IterBody(forceEnteringVarIndex)
    /\ pc' = IF ret'.err = "panic" THEN "panicked" ELSE "ready"
    /\ UNCHANGED <<inp, results, score, maxIter, i, totalIter, hist>>

(* ----------------------------- GetResults ------------------------------ *)
\* the loop "for i := cf.n; i < cf.n+cf.m; i++" over rows 0 .. k-1 of the basis
RECURSIVE ResultLoop(_)
ResultLoop(k) ==
    IF k = 0 THEN [result |-> [j \in 0..(n + m - 1) |-> F(0)], total |-> F(0)]
    ELSE LET prev == ResultLoop(k - 1)
             row == k - 1
         IN  [result |-> [prev.result EXCEPT ![remap[n + row]] = xBStar[row]],
              total |-> IF remap[n + row] < n
                        THEN RAdd[prev.total, RMul[xBStar[row], F(c[n + row])]]
                        ELSE prev.total]

GetResultsBody == ResultLoop(m)

\* cf.GetResults() called directly (TestIter): it reads the state only, so the
\* harness is followed to its first call of it
GetResults ==
    /\ pc = "ready"
    /\ results' = GetResultsBody.result
    /\ score' = GetResultsBody.total
    /\ pc' = "read"
    /\ UNCHANGED <<inp, cfVars, ret, maxIter, i, totalIter, hist>>

(* ------------------------- the test harness ---------------------------- *)
Next ==
    \/ New
    \/ \E f \in 0..n : Iter(f)
    \/ GetResults

Spec == Init /\ [][Next]_vars

(* ----------------------------- Simplex --------------------------------- *)
\* "cf.New(c, A, b)" and its error return
SimplexNew ==
    /\ pc = "start"
    /\ \E mi \in (0..MaxIter) \cup {TestMaxIter} : maxIter' = mi
    /\ NewBody
    /\ pc' = AfterNew("loop")
    /\ UNCHANGED <<inp, results, score, i, totalIter, hist>>

\* one turn of "for i := 0; i < maxIter; i++"
SimplexIter ==
    /\ pc = "loop"
    /\ i < maxIter
    /\ IterBody(0)
    /\ IF ret'.err # "nil" THEN
            pc' = "failed" /\ UNCHANGED <<i, totalIter>>
       ELSE IF ret'.end THEN
            pc' = "results" /\ UNCHANGED <<i, totalIter>>
       ELSE pc' = "loop" /\ totalIter' = totalIter + 1 /\ i' = i + 1
    /\ UNCHANGED <<inp, results, score, maxIter, hist>>

\* "results, score := cf.GetResults(); return totalIter, results, score, nil"
SimplexReturn ==
    /\ \/ pc = "results"
       \/ pc = "loop" /\ i >= maxIter
    /\ results' = GetResultsBody.result
    /\ score' = GetResultsBody.total
    /\ pc' = "returned"
    /\ UNCHANGED <<inp, cfVars, ret, maxIter, i, totalIter, hist>>

NextSimplex == SimplexNew \/ SimplexIter \/ SimplexReturn

SimplexSpec == Init /\ [][NextSimplex]_vars /\ WF_vars(NextSimplex)

(* ------------------- step(0) repeated without a cap -------------------- *)
\* the augmented variables whose columns stand in B
Basis == {varAt[n + r] : r \in 0..(m - 1)}

\* cf.Iter(0), as Simplex calls it
StepZero ==
    /\ pc = "ready"
    /\ IterBody(0)
    /\ hist' = IF ret'.leavingVarIndex = -1 THEN hist
               ELSE [left |-> hist.left \cup {Basis},
                     degenerate |-> hist.degenerate \/ ~RPos[ret'.x]]
    /\ UNCHANGED <<inp, pc, results, score, maxIter, i, totalIter>>

NextStep == New \/ StepZero

StepSpec == Init /\ [][NextStep]_vars /\ WF_vars(NextStep)

(* ======================= properties of the code ======================== *)
\* New returned no error and Iter has been called
Stepped == ret.op = "Iter" /\ ret.err = "nil"
\* the last Iter call exchanged a column (a successful pivot)
Pivoted == Stepped /\ ret.leavingVarIndex # -1
\* b >= 0 componentwise
RhsNonNegative == \A r \in 0..(m - 1) : b[r] >= 0
\* some column of A stands where New did not put it
Moved == \E j \in 0..(n + m - 1) : varAt[j] # j

\* C1: from New with b >= 0, after every Iter that returns without error (any
\* forced index it accepts, the leaving row chosen by the ratio test) every
\* component of xBStar is >= 0.
C1_Feasible ==
    (Stepped /\ RhsNonNegative) => \A r \in 0..(m - 1) : RLe[F(0), xBStar[r]]

\* a pivot with a positive step has changed xBStar, after an earlier pivot
C1_Witness ==
    /\ Pivoted /\ RhsNonNegative /\ RPos[ret.x]
    /\ Cardinality({j \in 0..(n - 1) : varAt[j] # j}) = 2

\* C2: whenever Iter(0) returns end = true because no entering variable was
\* selected, the recomputed row cN - (cB*B^-1)*AN has no entry > 0.
C2_Optimal ==
    (Stepped /\ ret.force = 0 /\ ret.end /\ ret.enteringVarIndex = -1)
        => \A j \in 0..(n - 1) : ~RPos[ReducedCosts(FindY.y)[j]]

\* Iter(0) has found the optimum of a dictionary that pivots have changed
C2_Witness ==
    /\ Stepped /\ ret.force = 0 /\ ret.end /\ ret.enteringVarIndex = -1
    /\ Moved
    /\ \E j \in 0..(n - 1) : RLt[ReducedCosts(FindY.y)[j], F(0)]

\* C3: for a bounded problem with b >= 0 whose pivots all have a step size > 0,
\* Iter(0) called again and again from New reaches the optimal terminal state
\* (end = true, no entering candidate) and never comes back to a basis it has
\* left.  (A run whose pivots are all non-degenerate ends in the unbounded
\* exit exactly when the problem is unbounded.)
Optimal == Stepped /\ ret.end /\ ret.enteringVarIndex = -1
Unbounded == Stepped /\ ret.end /\ ret.enteringVarIndex # -1
C3_Terminates ==
    /\ <>(pc \in {"failed", "panicked"} \/ Optimal \/ Unbounded \/ hist.degenerate)
    /\ []((pc = "ready" /\ ~hist.degenerate) => Basis \notin hist.left)

\* the optimum has been reached by two pivots or more, none of them degenerate
C3_Witness ==
    /\ Optimal /\ RhsNonNegative /\ ~hist.degenerate
    /\ Cardinality(hist.left) >= 2

\* C4: along successful pivots from New with b >= 0, the objective GetResults
\* returns after a pivot is >= the objective it returned before the pivot.
C4_Monotone ==
    [][(pc = "ready" /\ RhsNonNegative /\ varAt' # varAt)
            => RLe[GetResultsBody.total, GetResultsBody.total']]_vars

\* GetResults is called after two pivots, the last with a step > 0, so the
\* objective has grown
C4_Witness ==
    /\ pc = "read" /\ Pivoted /\ RhsNonNegative /\ RPos[ret.x]
    /\ Cardinality({j \in 0..(n - 1) : varAt[j] # j}) = 2
    /\ RPos[score]

\* the basic solution of the current dictionary: the variable whose column
\* stands in row r of the basis has the value xBStar[r], the others are 0
BasicSolution ==
    [v \in 0..(n + m - 1) |->
        IF \E r \in 0..(m - 1) : varAt[n + r] = v
        THEN xBStar[CHOOSE r \in 0..(m - 1) : varAt[n + r] = v]
        ELSE F(0)]

\* C5: after any sequence of successful pivots from New (a variable that left
\* the basis may re-enter it at another row), remap names the m basic
\* variables, one distinct variable for each row of the basis, and GetResults
\* returns the vector of length n+m that holds xBStar[row] at each basic
\* variable and 0 at each non-basic one.
C5_RemapExact ==
    Stepped =>
        /\ \A r \in 0..(m - 1) : remap[n + r] = varAt[n + r]
        /\ GetResultsBody.result = BasicSolution

\* the fields of the CanonicalForm are left as they were
CfUnchanged ==
    /\ A' = A /\ c' = c /\ b' = b /\ xBStar' = xBStar /\ remap' = remap
    /\ GetResultsBody' = GetResultsBody

C7_Unbounded ==
    [][(/\ pc = "ready" /\ ret' # ret /\ ret'.op = "Iter"
        /\ ret'.enteringVarIndex \in 0..(n - 1)
        /\ \A r \in 0..(m - 1) : ~RPos[SolveBd(ret'.enteringVarIndex)[r]])
            => (/\ ret'.end /\ ret'.err = "nil"
                /\ ret'.leavingVarIndex = -1 /\ ret'.x = F(-1)
                /\ xBStar' = xBStar /\ A' = A /\ c' = c /\ remap' = remap)]_vars

\* Iter has met a direction without a positive component, after a pivot
C7_Witness ==
    /\ Stepped /\ ret.enteringVarIndex \in 0..(n - 1) /\ ret.leavingVarIndex = -1
    /\ \A r \in 0..(m - 1) : ~RPos[SolveBd(ret.enteringVarIndex)[r]]
    /\ Moved

\* C8: Simplex on scenario A with maxIter = 10 returns no error, 2 iterations
\* (column 2 enters at row 2 with step 8, then column 0 enters at row 1 with
\* step 3), the solution [3,0,7,0,1,0,0] and the objective 147.
C8_ScenarioA ==
    (inp = ScenarioA /\ maxIter = TestMaxIter) =>
        /\ pc # "failed" /\ pc # "panicked"
        /\ (pc = "loop" /\ totalIter = 1) =>
                /\ ret.enteringVarIndex = 2 /\ ret.leavingVarIndex = 2
                /\ ret.x = F(8)
        /\ (pc = "loop" /\ totalIter = 2) =>
                /\ ret.enteringVarIndex = 0 /\ ret.leavingVarIndex = 1
                /\ ret.x = F(3)
        /\ pc = "returned" =>
                /\ ret.err = "nil"
                /\ totalIter = 2
                /\ results = [j \in 0..6 |-> F(Row(<<3, 0, 7, 0, 1, 0, 0>>)[j])]
                /\ score = F(147)

\* Simplex has returned on scenario A
C8_Witness == inp = ScenarioA /\ maxIter = TestMaxIter /\ pc = "returned"

\* C9: for c of one row and n entries, A of m rows and n' <= n columns and b
\* of m rows, New returns no error and leaves A of shape m x (n+m) with the
\* identity in columns n..n+m-1, c of length n+m with zero slack costs, B the
\* identity, AN the given A, cB = 0, cN the given c, xBStar a copy of b, and
\* slack n+i at basis row i.
C9_Construction ==
    (ret.op = "New" /\ inp.cRows = 1 /\ inp.aCols <= inp.cCols) =>
        /\ ret.err = "nil"
        /\ n = inp.cCols /\ m = inp.aRows
        /\ DOMAIN A = 0..(m - 1)
        /\ \A r \in 0..(m - 1) : DOMAIN A[r] = 0..(n + m - 1)
        /\ DOMAIN c = 0..(n + m - 1)
        /\ B = [r \in 0..(m - 1) |-> [j \in 0..(m - 1) |-> IF r = j THEN 1 ELSE 0]]
        /\ AN = inp.A
        /\ cB = [j \in 0..(m - 1) |-> 0]
        /\ cN = inp.c
        /\ b = inp.b
        /\ xBStar = [r \in 0..(m - 1) |-> F(inp.b[r])]
        /\ \A r \in 0..(m - 1) : remap[n + r] = n + r

\* C10: after every successful pivot from New with b >= 0, B*xBStar = b for
\* the columns the exchange left in the basis block and the unchanged b.
C10_Dictionary ==
    (Stepped /\ RhsNonNegative) =>
        /\ b = inp.b
        /\ \A r \in 0..(m - 1) :
              RSum([j \in 0..(m - 1) |-> RMul[F(B[r][j]), xBStar[j]]], m) = F(b[r])

\* two pivots have filled the basis with the structural columns
C10_Witness ==
    /\ Pivoted /\ RhsNonNegative /\ RPos[ret.x]
    /\ \A r \in 0..(m - 1) : varAt[n + r] < n
    /\ \E r \in 0..(m - 1) : xBStar[r][2] > 1

\* the first index attaining the maximum strictly positive entry of the row r,
\* -1 when no entry is strictly positive
DantzigChoice(r) ==
    IF \A j \in 0..(n - 1) : ~RPos[r[j]] THEN -1
    ELSE CHOOSE j \in 0..(n - 1) :
            /\ RPos[r[j]]
            /\ \A h \in 0..(n - 1) : RLe[r[h], r[j]]
            /\ \A h \in 0..(j - 1) : RLt[r[h], r[j]]

\* a call of Iter that returned without error, from one dictionary to the next
IterStep == pc = "ready" /\ pc' = "ready" /\ ret'.op = "Iter" /\ ret'.err = "nil"

\* a forced index k > 0 whose reduced cost is > 0 enters, whatever the others are
C11_Honoured ==
    [][IterStep =>
        LET r == ReducedCosts(FindY.y)
            k == ret'.force
        IN  (k > 0 /\ RPos[r[k]]) => ret'.enteringVarIndex = k]_vars

\* a forced index k > 0 whose reduced cost is <= 0 leaves the choice to the
\* unforced rule; the call ends at the entering stage only when no reduced
\* cost is > 0
C11_NotHonoured ==
    [][IterStep =>
        LET r == ReducedCosts(FindY.y)
            k == ret'.force
        IN  (k > 0 /\ ~RPos[r[k]]) =>
                /\ ret'.enteringVarIndex = DantzigChoice(r)
                /\ (ret'.end /\ ret'.enteringVarIndex = -1)
                       => \A j \in 0..(n - 1) : ~RPos[r[j]]]_vars

\* with forced index 0 the first index of the largest reduced cost > 0 enters
C11_Unforced ==
    [][IterStep =>
        LET r == ReducedCosts(FindY.y)
        IN  ret'.force = 0 => ret'.enteringVarIndex = DantzigChoice(r)]_vars

\* C11: a forced index k > 0 only overrides which column enters: column k
\* enters when its reduced cost is > 0, even when another reduced cost is
\* larger; when it is <= 0 the call behaves as the unforced call does, so it
\* ends at the entering stage only when no reduced cost is > 0; with forced
\* index 0 the first index attaining the maximum reduced cost > 0 enters.
C11_ForcedIndex ==
    [][IterStep =>
        LET r == ReducedCosts(FindY.y)
            k == ret'.force
            e == ret'.enteringVarIndex
        IN  /\ (k > 0 /\ RPos[r[k]]) => e = k
            /\ (k > 0 /\ ~RPos[r[k]]) =>
                  /\ e = DantzigChoice(r)
                  /\ (ret'.end /\ e = -1) => \A j \in 0..(n - 1) : ~RPos[r[j]]
            /\ k = 0 => e = DantzigChoice(r)]_vars

=============================================================================
